---- MODULE Spec2Model ----
(***************************************************************************)
(* JoDonate: the item / request lifecycle kept in Firestore by the client  *)
(* screens.                                                                *)
(*                                                                         *)
(*   items/{itemId}            ownerId, status                             *)
(*   requests/{itemId_uid}     itemId, itemOwnerId, requesterId, status    *)
(*   notifications/{autoId}    toUserId, fromUserId, type, itemId, read    *)
(*                                                                         *)
(* Every screen renders the last snapshot its onSnapshot listener          *)
(* delivered and its buttons are enabled from that snapshot.  A handler    *)
(* call is therefore recorded in `calls` at the moment the snapshot that   *)
(* enables its button is the live data; the handler's reads and writes     *)
(* happen in a later step, after any number of steps of other clients.     *)
(* runTransaction is Firestore's serializable transaction: the run of the  *)
(* update function that commits has read the live documents (a run whose   *)
(* reads went stale is repeated), a throw aborts it, and its buffered      *)
(* writes are applied together.  A transaction is one step, taken at its   *)
(* commit point.                                                           *)
(***************************************************************************)
EXTENDS Integers, Sequences, FiniteSets, Bags, TLC

Users == {"u1", "u2", "u3", "u4"}
ItemIds == {"A"}

\* Bounds of the model.
MaxNotifs == 5
MaxCalls == 2

VARIABLES
    items,          \* collection "items": id -> [ownerId, status]
    requests,       \* collection "requests": <<itemId, uid>> -> document
    notifications,  \* collection "notifications", in creation order
    usedIds,        \* item ids addDoc has handed out
    calls,          \* handler calls in flight, a bag: a button can be pressed twice
    storage,        \* Firebase Storage: the image objects stored
    alert,          \* the alert deleteItem showed last, and for which item
    checked,        \* the statuses canMarkDonated was applied to, with its results
    ai,             \* the last categorizeItemFromImage call and the add-item form it fills
    stats,          \* the profile screen: whose it is and the three counts it shows
    feed            \* the notifications screen: whose it is, its list, cache and reads

vars == <<items, requests, notifications, usedIds, calls, storage, alert, checked,
          ai, stats, feed>>
db == <<items, requests, notifications>>

\* `${id}_${user.uid}`: ids are Firestore auto-ids and auth uids, which hold
\* no "_", so the concatenation is the pair.
RequestId(itemId, uid) == <<itemId, uid>>

\* tx.get(ref): the snapshot of a document, <<>> when !snap.exists().
Snap(coll, id) == IF id \in DOMAIN coll THEN <<coll[id]>> ELSE <<>>

Put(coll, id, document) == [k \in DOMAIN coll \cup {id} |-> IF k = id THEN document ELSE coll[k]]
Update(coll, id, field, value) == [coll EXCEPT ![id] = [@ EXCEPT ![field] = value]]
Remove(coll, id) == [k \in DOMAIN coll \ {id} |-> coll[k]]

\* The add-item form before anything was picked: useState("") for category,
\* useState(null) for aiHint; `last` holds the last categorizeItemFromImage call.
aiInit == [last |-> <<>>, category |-> <<>>, aiHint |-> "null"]

\* The profile screen, not mounted: useState({listed: 0, donated: 0, requests: 0}).
statsInit == [uid |-> "none", listed |-> 0, donated |-> 0, requests |-> 0]

\* The notifications screen, not mounted: notifs [], profiles {} (the uids
\* cached); `shown` tells whether a snapshot was delivered, `closure` is the
\* profiles the listener's ensureProfile sees, `reads` counts getDoc(users/{uid}).
feedInit == [uid |-> "none", shown |-> FALSE, notifs |-> <<>>, profiles |-> {},
             closure |-> {}, reads |-> [u \in Users |-> 0]]

Init ==
    /\ items = <<>>
    /\ requests = <<>>
    /\ notifications = <<>>
    /\ usedIds = {}
    /\ calls = EmptyBag
    /\ storage = {}
    /\ alert = [itemId |-> "", title |-> ""]
    /\ checked = <<>>
    /\ ai = aiInit
    /\ stats = statsInit
    /\ feed = feedInit

\* The object uploadImageAsync stores for a new item, `items/${userId}/${Date.now()}.jpg`,
\* and the one the edit screen stores, `item-images/${uid}/${id}.jpg`; the
\* download URL kept in imageUrl names the object.  NoImage is imageUrl "".
AddImage(id) == <<"items", id>>
EditImage(id) == <<"item-images", id>>
NoImage == <<>>

\* The state of the edit screen's form a handler of that screen runs with; the
\* other screens' handlers have none.
NoForm == [imageUrl |-> NoImage]

Call(op, uid, itemId, requestId) ==
    [op |-> op, uid |-> uid, itemId |-> itemId, requestId |-> requestId, form |-> NoForm]

Launch(c) ==
    /\ BagCardinality(calls) < MaxCalls
    /\ calls' = calls (+) SetToBag({c})
    /\ UNCHANGED <<items, requests, notifications, usedIds, storage, alert, checked, ai, stats, feed>>

\* AddItem screen, onSubmit: uploadImageAsync, then
\* addDoc(collection(db, "items"), {title, ..., imageUrl, ownerId, status: "available"}).
onSubmit(uid) ==
    \E id \in ItemIds \ usedIds :
        /\ storage' = storage \cup {AddImage(id)}
        /\ items' = Put(items, id, [ownerId |-> uid, status |-> "available",
                                    imageUrl |-> AddImage(id)])
        /\ usedIds' = usedIds \cup {id}
        /\ UNCHANGED <<requests, notifications, calls, alert, checked, ai, stats, feed>>

\* Item details screen, onRequestItem before the transaction: the checks on the
\* cached `item` (the last snapshot of items/{id}) and on isAvailable.
onRequestItem(uid, itemId) ==
    /\ itemId \in DOMAIN items
    /\ items[itemId].ownerId # uid
    /\ items[itemId].status = "available"
    /\ Launch(Call("request", uid, itemId, RequestId(itemId, uid)))

\* My Requests screen: Accept and Reject are rendered for a row of the
\* "received" list (itemOwnerId == uid) whose cached status is "pending".
ReceivedPending(uid, requestId) ==
    /\ requestId \in DOMAIN requests
    /\ requests[requestId].itemOwnerId = uid
    /\ requests[requestId].status = "pending"

approve(uid, requestId) ==
    /\ ReceivedPending(uid, requestId)
    /\ Launch(Call("approve", uid, requests[requestId].itemId, requestId))

reject(uid, requestId) ==
    /\ ReceivedPending(uid, requestId)
    /\ Launch(Call("reject", uid, requests[requestId].itemId, requestId))

\* My Items screen: the list is the query ownerId == uid; Mark Donated is
\* disabled unless isAccepted(item.status) on the cached row.
\* String.prototype.toLowerCase on the strings of StatusInputs.
toLowerCase(s) ==
    CASE s \in {"Accepted", "ACCEPTED"} -> "accepted"
      [] s = "Donated" -> "donated"
      [] OTHER -> s

isAccepted(s) == toLowerCase(s) = "accepted"

markDonated(uid, itemId) ==
    /\ itemId \in DOMAIN items
    /\ items[itemId].ownerId = uid
    /\ isAccepted(items[itemId].status)
    /\ Launch(Call("markDonated", uid, itemId, RequestId(itemId, uid)))

\* deleteItem deleting the image before the document.
deleteItemImageFirst(uid, itemId) ==
    /\ itemId \in DOMAIN items
    /\ items[itemId].ownerId = uid
    /\ \E imageDeleted, docDeleted \in BOOLEAN :
          /\ storage' = IF imageDeleted THEN storage \ {items[itemId].imageUrl} ELSE storage
          /\ IF docDeleted
             THEN /\ items' = Remove(items, itemId)
                  /\ alert' = [itemId |-> itemId, title |-> "Deleted"]
             ELSE /\ items' = items
                  /\ alert' = [itemId |-> itemId, title |-> "Error"]
    /\ UNCHANGED <<requests, notifications, usedIds, calls, checked, ai, stats, feed>>

\* deleteItem deleting the requests on the item with it.
deleteItemWithRequests(uid, itemId) ==
    /\ itemId \in DOMAIN items
    /\ items[itemId].ownerId = uid
    /\ items' = Remove(items, itemId)
    /\ requests' = [r \in {q \in DOMAIN requests : requests[q].itemId # itemId} |-> requests[r]]
    /\ alert' = [itemId |-> itemId, title |-> "Deleted"]
    /\ UNCHANGED <<notifications, usedIds, calls, storage, checked, ai, stats, feed>>

\* My Items screen, deleteItem on a row of the list (ownerId == uid), after
\* the confirmation: deleteDoc; when it rejects, the catch alerts "Error".
\* Otherwise, when the row has an imageUrl, deleteObject(...).catch(() => {}),
\* which removes the object or fails silently, and the alert "Deleted".
deleteItem(uid, itemId) ==
    /\ itemId \in DOMAIN items
    /\ items[itemId].ownerId = uid
    /\ \E docDeleted, imageDeleted \in BOOLEAN :
          IF docDeleted
          THEN /\ items' = Remove(items, itemId)
               /\ storage' = IF items[itemId].imageUrl # NoImage /\ imageDeleted
                             THEN storage \ {items[itemId].imageUrl}
                             ELSE storage
               /\ alert' = [itemId |-> itemId, title |-> "Deleted"]
          ELSE /\ alert' = [itemId |-> itemId, title |-> "Error"]
               /\ UNCHANGED <<items, storage>>
    /\ UNCHANGED <<requests, notifications, usedIds, calls, checked, ai, stats, feed>>

TxOps == {"request", "approve", "reject"}

\* tx.get(itemRef) and tx.get(requestRef) of the committing run.
ItemSnap(c) == Snap(items, c.itemId)
ReqSnap(c) == Snap(requests, c.requestId)

\* onRequestItem's update function without the check of the live status.
RequestTxErrorNoStatusCheck(uid, itemSnap, reqSnap) ==
    IF itemSnap = <<>> THEN "Item not found."
    ELSE IF itemSnap[1].ownerId = uid THEN "You cannot request your own item."
    ELSE IF reqSnap # <<>> THEN "You already requested this item."
    ELSE ""

\* onRequestItem's update function without the check for an existing request.
RequestTxErrorNoDuplicateCheck(uid, itemSnap, reqSnap) ==
    IF itemSnap = <<>> THEN "Item not found."
    ELSE IF itemSnap[1].ownerId = uid THEN "You cannot request your own item."
    ELSE IF itemSnap[1].status # "available" THEN "This item is not available."
    ELSE ""

\* onRequestItem's update function without the check of the live owner.
RequestTxErrorNoOwnerCheck(uid, itemSnap, reqSnap) ==
    IF itemSnap = <<>> THEN "Item not found."
    ELSE IF itemSnap[1].status # "available" THEN "This item is not available."
    ELSE IF reqSnap # <<>> THEN "You already requested this item."
    ELSE ""

\* onRequestItem's update function refusing only a request that is still pending.
RequestTxErrorDuplicateOnlyIfPending(uid, itemSnap, reqSnap) ==
    IF itemSnap = <<>> THEN "Item not found."
    ELSE IF itemSnap[1].ownerId = uid THEN "You cannot request your own item."
    ELSE IF itemSnap[1].status # "available" THEN "This item is not available."
    ELSE IF reqSnap # <<>> /\ reqSnap[1].status = "pending" THEN "You already requested this item."
    ELSE ""

\* The throws of onRequestItem's update function, "" when it throws nothing.
RequestTxError(uid, itemSnap, reqSnap) ==
    IF itemSnap = <<>> THEN "Item not found."
    ELSE IF itemSnap[1].ownerId = uid THEN "You cannot request your own item."
    ELSE IF itemSnap[1].status # "available" THEN "This item is not available."
    ELSE IF reqSnap # <<>> THEN "You already requested this item."
    ELSE ""

\* approve's update function without the check of the owner.
ApproveTxErrorNoOwnerCheck(uid, itemSnap, reqSnap) ==
    IF reqSnap = <<>> THEN "Request not found"
    ELSE IF itemSnap = <<>> THEN "Item not found"
    ELSE ""

\* The throws of approve's update function.
ApproveTxError(uid, itemSnap, reqSnap) ==
    IF reqSnap = <<>> THEN "Request not found"
    ELSE IF itemSnap = <<>> THEN "Item not found"
    ELSE IF itemSnap[1].ownerId # uid THEN "You are not the owner of this item."
    ELSE ""

\* The throws of reject's update function.
RejectTxError(uid, itemSnap, reqSnap) ==
    IF reqSnap = <<>> THEN "Request not found"
    ELSE IF itemSnap = <<>> THEN "Item not found"
    ELSE IF itemSnap[1].ownerId # uid THEN "You are not the owner of this item."
    ELSE ""

TxError(c) ==
    CASE c.op = "request" -> RequestTxError(c.uid, ItemSnap(c), ReqSnap(c))
      [] c.op = "approve" -> ApproveTxError(c.uid, ItemSnap(c), ReqSnap(c))
      [] c.op = "reject" -> RejectTxError(c.uid, ItemSnap(c), ReqSnap(c))

Notification(to, from, type, itemId) ==
    [toUserId |-> to, fromUserId |-> from, type |-> type, itemId |-> itemId, read |-> FALSE]

\* onRequestItem's update function without the tx.set of the notification.
RequestTxWritesNoNotification(c) ==
    [notifications |-> notifications,
     requests |-> Put(requests, c.requestId,
        [itemId |-> c.itemId, itemOwnerId |-> ItemSnap(c)[1].ownerId,
         requesterId |-> c.uid, status |-> "pending"]),
     items |-> Update(items, c.itemId, "status", "requested")]

\* The writes onRequestItem's update function buffers: the notification for the
\* owner, the request, the item status.
RequestTxWrites(c) ==
    [notifications |-> Append(notifications,
        Notification(ItemSnap(c)[1].ownerId, c.uid, "request_received", c.itemId)),
     requests |-> Put(requests, c.requestId,
        [itemId |-> c.itemId, itemOwnerId |-> ItemSnap(c)[1].ownerId,
         requesterId |-> c.uid, status |-> "pending"]),
     items |-> Update(items, c.itemId, "status", "requested")]

\* approve's update function without the tx.update of the request.
ApproveTxWritesNoRequest(c) ==
    [requests |-> requests,
     items |-> Update(items, c.itemId, "status", "accepted"),
     notifications |-> Append(notifications,
        Notification(ReqSnap(c)[1].requesterId, c.uid, "request_approved", ReqSnap(c)[1].itemId))]

\* approve's update function with the notification addressed to the owner.
ApproveTxWritesNotifyOwner(c) ==
    [requests |-> Update(requests, c.requestId, "status", "approved"),
     items |-> Update(items, c.itemId, "status", "accepted"),
     notifications |-> Append(notifications,
        Notification(c.uid, ReqSnap(c)[1].requesterId, "request_approved", ReqSnap(c)[1].itemId))]

\* reject's update function without the tx.update of the item.
RejectTxWritesNoItem(c) ==
    [requests |-> Update(requests, c.requestId, "status", "rejected"),
     items |-> items,
     notifications |-> Append(notifications,
        Notification(ReqSnap(c)[1].requesterId, c.uid, "request_rejected", ReqSnap(c)[1].itemId))]

\* approve's update function without the tx.update of the item.
ApproveTxWritesNoItem(c) ==
    [requests |-> Update(requests, c.requestId, "status", "approved"),
     items |-> items,
     notifications |-> Append(notifications,
        Notification(ReqSnap(c)[1].requesterId, c.uid, "request_approved", ReqSnap(c)[1].itemId))]

\* The writes approve's update function buffers.
ApproveTxWrites(c) ==
    [requests |-> Update(requests, c.requestId, "status", "approved"),
     items |-> Update(items, c.itemId, "status", "accepted"),
     notifications |-> Append(notifications,
        Notification(ReqSnap(c)[1].requesterId, c.uid, "request_approved", ReqSnap(c)[1].itemId))]

\* The writes reject's update function buffers.
RejectTxWrites(c) ==
    [requests |-> Update(requests, c.requestId, "status", "rejected"),
     items |-> Update(items, c.itemId, "status", "available"),
     notifications |-> Append(notifications,
        Notification(ReqSnap(c)[1].requesterId, c.uid, "request_rejected", ReqSnap(c)[1].itemId))]

TxWrites(c) ==
    CASE c.op = "request" -> RequestTxWrites(c)
      [] c.op = "approve" -> ApproveTxWrites(c)
      [] c.op = "reject" -> RejectTxWrites(c)

Return(c) == calls (-) SetToBag({c})

InTx(c) == BagIn(c, calls) /\ c.op \in TxOps

\* The update function threw: runTransaction rejects, nothing is written, the
\* handler's catch shows the message.
TxThrow(c) ==
    /\ InTx(c)
    /\ TxError(c) # ""
    /\ calls' = Return(c)
    /\ UNCHANGED <<items, requests, notifications, usedIds, storage, alert, checked, ai, stats, feed>>

\* The update function returned: its buffered writes are applied together.
TxCommit(c) ==
    /\ InTx(c)
    /\ TxError(c) = ""
    /\ Len(notifications) < MaxNotifs
    /\ items' = TxWrites(c).items
    /\ requests' = TxWrites(c).requests
    /\ notifications' = TxWrites(c).notifications
    /\ calls' = Return(c)
    /\ UNCHANGED <<usedIds, storage, alert, checked, ai, stats, feed>>

\* markDonated: updateDoc(doc(db, "items", itemId), { status: "donated" }).
\* updateDoc fails on a missing document and writes nothing.
MarkDonatedWrite(itemId) ==
    IF itemId \in DOMAIN items THEN Update(items, itemId, "status", "donated") ELSE items

markDonatedUpdate(c) ==
    /\ BagIn(c, calls)
    /\ c.op = "markDonated"
    /\ items' = MarkDonatedWrite(c.itemId)
    /\ calls' = Return(c)
    /\ UNCHANGED <<requests, notifications, usedIds, storage, alert, checked, ai, stats, feed>>

Next ==
    \/ \E u \in Users : onSubmit(u)
    \/ \E u \in Users, i \in ItemIds : onRequestItem(u, i)
    \/ \E u \in Users, r \in DOMAIN requests : approve(u, r)
    \/ \E u \in Users, r \in DOMAIN requests : reject(u, r)
    \/ \E u \in Users, i \in ItemIds : markDonated(u, i)
    \/ \E u \in Users, i \in ItemIds : deleteItem(u, i)
    \/ \E c \in BagToSet(calls) : TxThrow(c)
    \/ \E c \in BagToSet(calls) : TxCommit(c)
    \/ \E c \in BagToSet(calls) : markDonatedUpdate(c)

Spec == Init /\ [][Next]_vars

(***************************************************************************)
(* RequestItem as an operation on arbitrary arguments: the transaction of  *)
(* onRequestItem started by any signed-in user for any item id, whatever   *)
(* the item screen shows, so that every check of its update function is    *)
(* exercised.  The other handlers are as above.                            *)
(***************************************************************************)
RequestItem(uid, itemId) ==
    Launch(Call("request", uid, itemId, RequestId(itemId, uid)))

NextOps ==
    \/ \E u \in Users : onSubmit(u)
    \/ \E u \in Users, i \in ItemIds : RequestItem(u, i)
    \/ \E u \in Users, r \in DOMAIN requests : approve(u, r)
    \/ \E u \in Users, r \in DOMAIN requests : reject(u, r)
    \/ \E u \in Users, i \in ItemIds : markDonated(u, i)
    \/ \E u \in Users, i \in ItemIds : deleteItem(u, i)
    \/ \E c \in BagToSet(calls) : TxThrow(c)
    \/ \E c \in BagToSet(calls) : TxCommit(c)
    \/ \E c \in BagToSet(calls) : markDonatedUpdate(c)

SpecOps == Init /\ [][NextOps]_vars

(***************************************************************************)
(* ApproveRequest and RejectRequest as operations on arbitrary arguments:  *)
(* the transactions of approve and reject started by any signed-in user    *)
(* for any request id and item id, whatever the requests screen shows.     *)
(* Such a call is started while no other call is in flight; the documents  *)
(* still change between its start and its transaction.                     *)
(***************************************************************************)
RequestIds == {RequestId(i, u) : i \in ItemIds, u \in Users}

ApproveRequest(uid, requestId, itemId) ==
    /\ calls = EmptyBag
    /\ Launch(Call("approve", uid, itemId, requestId))

RejectRequest(uid, requestId, itemId) ==
    /\ calls = EmptyBag
    /\ Launch(Call("reject", uid, itemId, requestId))

NextDecide ==
    \/ \E u \in Users : onSubmit(u)
    \/ \E u \in Users, i \in ItemIds : onRequestItem(u, i)
    \/ \E u \in Users, r \in RequestIds, i \in ItemIds : ApproveRequest(u, r, i)
    \/ \E u \in Users, r \in RequestIds, i \in ItemIds : RejectRequest(u, r, i)
    \/ \E u \in Users, i \in ItemIds : deleteItem(u, i)
    \/ \E c \in BagToSet(calls) : TxThrow(c)
    \/ \E c \in BagToSet(calls) : TxCommit(c)

SpecDecide == Init /\ [][NextDecide]_vars

(***************************************************************************)
(* The edit screen.  Its load reads items/{id} once, refuses a user who is *)
(* not the owner and fills the form; its handlers run later with that      *)
(* form, on whatever the document has become.                              *)
(***************************************************************************)
EditOps == {"changeItemImage", "removeItemImage", "onSave"}

EditCall(op, uid, itemId, form) ==
    [Call(op, uid, itemId, RequestId(itemId, uid)) EXCEPT !.form = form]

\* load: the document exists and data.ownerId === currentUser.uid.
load(uid, itemId) ==
    /\ itemId \in DOMAIN items
    /\ items[itemId].ownerId = uid

changeItemImage(uid, itemId) ==
    /\ load(uid, itemId)
    /\ Launch(EditCall("changeItemImage", uid, itemId, NoForm))

removeItemImage(uid, itemId) ==
    /\ load(uid, itemId)
    /\ Launch(EditCall("removeItemImage", uid, itemId, NoForm))

\* The form holds the imageUrl that was loaded.
onSave(uid, itemId) ==
    /\ load(uid, itemId)
    /\ Launch(EditCall("onSave", uid, itemId, [imageUrl |-> items[itemId].imageUrl]))

\* updateDoc(ref, fields): sets the given fields of an existing document and
\* keeps its other fields; it rejects on a missing document and writes nothing.
updateDoc(coll, id, fields) ==
    IF id \in DOMAIN coll
    THEN [coll EXCEPT ![id] =
            [f \in DOMAIN coll[id] |-> IF f \in DOMAIN fields THEN fields[f] ELSE coll[id][f]]]
    ELSE coll

\* onSave writing the status of a new item with the form's fields.
onSaveFieldsWithStatus(c) ==
    [imageUrl |-> c.form.imageUrl, status |-> "available"]

\* The fields onSave writes: imageUrl, and title, description, category and
\* contactNumber, typed text that no handler reads and the items here do not
\* carry.
onSaveFields(c) ==
    [imageUrl |-> c.form.imageUrl]

InEdit(c, op) == BagIn(c, calls) /\ c.op = op

\* changeItemImage: uploadBytes to the edit object, then updateDoc of imageUrl.
changeItemImageUpdate(c) ==
    /\ InEdit(c, "changeItemImage")
    /\ storage' = storage \cup {EditImage(c.itemId)}
    /\ items' = updateDoc(items, c.itemId, [imageUrl |-> EditImage(c.itemId)])
    /\ calls' = Return(c)
    /\ UNCHANGED <<requests, notifications, usedIds, alert, checked, ai, stats, feed>>

\* removeItemImage: deleteObject(...).catch(() => {}) of the edit object, then
\* updateDoc of imageUrl "".
removeItemImageUpdate(c) ==
    /\ InEdit(c, "removeItemImage")
    /\ \E deleted \in BOOLEAN :
          storage' = IF deleted THEN storage \ {EditImage(c.itemId)} ELSE storage
    /\ items' = updateDoc(items, c.itemId, [imageUrl |-> NoImage])
    /\ calls' = Return(c)
    /\ UNCHANGED <<requests, notifications, usedIds, alert, checked, ai, stats, feed>>

onSaveUpdate(c) ==
    /\ InEdit(c, "onSave")
    /\ items' = updateDoc(items, c.itemId, onSaveFields(c))
    /\ calls' = Return(c)
    /\ UNCHANGED <<requests, notifications, usedIds, storage, alert, checked, ai, stats, feed>>

NextEdit ==
    \/ \E u \in Users : onSubmit(u)
    \/ \E u \in Users, i \in ItemIds : onRequestItem(u, i)
    \/ \E u \in Users, r \in DOMAIN requests : approve(u, r)
    \/ \E u \in Users, r \in DOMAIN requests : reject(u, r)
    \/ \E u \in Users, i \in ItemIds : markDonated(u, i)
    \/ \E u \in Users, i \in ItemIds : deleteItem(u, i)
    \/ \E u \in Users, i \in ItemIds : changeItemImage(u, i)
    \/ \E u \in Users, i \in ItemIds : removeItemImage(u, i)
    \/ \E u \in Users, i \in ItemIds : onSave(u, i)
    \/ \E c \in BagToSet(calls) : TxThrow(c)
    \/ \E c \in BagToSet(calls) : TxCommit(c)
    \/ \E c \in BagToSet(calls) : markDonatedUpdate(c)
    \/ \E c \in BagToSet(calls) : changeItemImageUpdate(c)
    \/ \E c \in BagToSet(calls) : removeItemImageUpdate(c)
    \/ \E c \in BagToSet(calls) : onSaveUpdate(c)

SpecEdit == Init /\ [][NextEdit]_vars

(***************************************************************************)
(* The notifications screen: the list is the query toUserId == uid, and    *)
(* pressing a row calls markRead with the row's id.  It runs beside the    *)
(* handlers of the lifecycle; deleteItem and the edit screen, which write  *)
(* items and Storage only, are in the specifications above.                *)
(***************************************************************************)
\* markRead writing the opposite of the row's read.
markReadToggle(uid, k) ==
    /\ k \in 1..Len(notifications)
    /\ notifications[k].toUserId = uid
    /\ notifications' = [notifications EXCEPT ![k].read = ~notifications[k].read]
    /\ UNCHANGED <<items, requests, usedIds, calls, storage, alert, checked, ai, stats, feed>>

\* updateDoc writing the read it did not find.
markReadWriteUnlessRead(ns, k) == [ns EXCEPT ![k].read = ~ns[k].read]

\* updateDoc(doc(db, "notifications", id), { read: true }) on the collection ns.
markReadWrite(ns, k) == [ns EXCEPT ![k].read = TRUE]

\* markRead, from a row of the list; the row may be read already.
markRead(uid, k) ==
    /\ k \in 1..Len(notifications)
    /\ notifications[k].toUserId = uid
    /\ notifications' = markReadWrite(notifications, k)
    /\ UNCHANGED <<items, requests, usedIds, calls, storage, alert, checked, ai, stats, feed>>

NextNotif ==
    \/ \E u \in Users : onSubmit(u)
    \/ \E u \in Users, i \in ItemIds : onRequestItem(u, i)
    \/ \E u \in Users, r \in DOMAIN requests : approve(u, r)
    \/ \E u \in Users, r \in DOMAIN requests : reject(u, r)
    \/ \E u \in Users, i \in ItemIds : markDonated(u, i)
    \/ \E k \in 1..Len(notifications) : markRead(notifications[k].toUserId, k)
    \/ \E c \in BagToSet(calls) : TxThrow(c)
    \/ \E c \in BagToSet(calls) : TxCommit(c)
    \/ \E c \in BagToSet(calls) : markDonatedUpdate(c)

SpecNotif == Init /\ [][NextNotif]_vars

(***************************************************************************)
(* lib/rules.ts: the business rule of Mark Donated, a pure function,       *)
(* applied to status strings as its tests do.                              *)
(***************************************************************************)
StatusInputs ==
    {"available", "requested", "accepted", "donated", "pending", "approved",
     "rejected", "", "Accepted", "ACCEPTED", "Donated", " accepted", "accepted "}

\* The rule comparing as the My Items screen's isAccepted does.
canMarkDonatedIgnoringCase(status) == toLowerCase(status) = "accepted"

canMarkDonated(status) == status = "accepted"

\* expect(canMarkDonated(status)): the rule is applied and its result kept.
expectCanMarkDonated(status) ==
    /\ checked' = Put(checked, status, canMarkDonated(status))
    /\ UNCHANGED <<items, requests, notifications, usedIds, calls, storage, alert,
                   ai, stats, feed>>

NextRules == \E status \in StatusInputs : expectCanMarkDonated(status)

SpecRules == Init /\ [][NextRules]_vars

(***************************************************************************)
(* functions/index.js: the callable categorizeItemFromImage, and the       *)
(* add-item screen's runAICategorization that calls it.  A string is the   *)
(* sequence of its characters.  A JavaScript value is [t, v]: its typeof   *)
(* and, for a string, its characters.                                      *)
(***************************************************************************)
Books == <<"B", "o", "o", "k", "s">>
Furniture == <<"F", "u", "r", "n", "i", "t", "u", "r", "e">>
Clothes == <<"C", "l", "o", "t", "h", "e", "s">>
Electronics == <<"E", "l", "e", "c", "t", "r", "o", "n", "i", "c", "s">>
Accessories == <<"A", "c", "c", "e", "s", "s", "o", "r", "i", "e", "s">>
Plants == <<"P", "l", "a", "n", "t", "s">>

ALLOWED == <<Books, Furniture, Clothes, Electronics, Accessories, Plants>>

pickFallbackCategory == Accessories

includes(list, x) == \E k \in DOMAIN list : list[k] = x

Undefined == [t |-> "undefined", v |-> <<>>]
String(chars) == [t |-> "string", v |-> chars]
Number(digits) == [t |-> "number", v |-> digits]

\* !x
Falsy(x) ==
    \/ x.t = "undefined"
    \/ x.t = "string" /\ x.v = <<>>
    \/ x.t = "number" /\ x.v = <<"0">>

WhiteSpace == {" ", "\n", "\t"}

RECURSIVE trimStart(_)
trimStart(s) == IF s # <<>> /\ Head(s) \in WhiteSpace THEN trimStart(Tail(s)) ELSE s

RECURSIVE trimEnd(_)
trimEnd(s) ==
    IF s # <<>> /\ s[Len(s)] \in WhiteSpace THEN trimEnd(SubSeq(s, 1, Len(s) - 1)) ELSE s

trim(s) == trimEnd(trimStart(s))

\* s.replace(/[...]/g, ""): every character of the class is removed.
replace(s, class) == SelectSeq(s, LAMBDA ch : ch \notin class)

\* What client.chat.completions.create does: it rejects (quota, network,
\* timeout), or resolves with a response whose first choice holds the content,
\* or with one that holds no content.
Rejects == [rejects |-> TRUE, content |-> Undefined]
Resolves(content) == [rejects |-> FALSE, content |-> content]

Toys == <<"T", "o", "y", "s">>
Contents ==
    {Books, Furniture, Clothes, Electronics, Accessories, Plants, Toys, <<>>,
     <<"b", "o", "o", "k", "s">>,
     <<" ">> \o Plants \o <<"\n">>,
     <<"\"">> \o Books \o <<"\"">>,
     Clothes \o <<".">>,
     <<"'">> \o Furniture \o <<"'", ".", " ">>,
     Books \o <<",", " ">> \o Plants,
     <<".">>}

Outcomes == {Rejects, Resolves(Undefined)} \cup {Resolves(String(c)) : c \in Contents}

\* request.data: none, {}, or {imageUrl}.
Url == <<"h", "t", "t", "p", "s", ":", "/", "/", "x">>
NoData == [hasImageUrl |-> FALSE, imageUrl |-> Undefined]
Data(imageUrl) == [hasImageUrl |-> TRUE, imageUrl |-> imageUrl]
RequestData ==
    {NoData, Data(Undefined), Data(String(<<>>)), Data(Number(<<"4", "2">>)),
     Data(String(Url))}

Returns(category, aiUsed) == [threw |-> "", category |-> category, aiUsed |-> aiUsed]
Throws(code) == [threw |-> code, category |-> <<>>, aiUsed |-> FALSE]

\* response.choices?.[0]?.message?.content || ""
ContentOr(content) == IF Falsy(content) THEN <<>> ELSE content.v

\* The handler of the first copy in the file: no typeof check, no cleaning.
categorizeItemFromImageFirst(data, outcome) ==
    LET imageUrl == data.imageUrl
        raw == trim(ContentOr(outcome.content))
    IN  IF Falsy(imageUrl) THEN Throws("Missing imageUrl")
        ELSE IF outcome.rejects THEN Returns(pickFallbackCategory, FALSE)
        ELSE Returns(IF includes(ALLOWED, raw) THEN raw ELSE pickFallbackCategory, TRUE)

\* The handler of the callable, the copy defined last.
categorizeItemFromImage(data, outcome) ==
    LET imageUrl == data.imageUrl
        raw == trim(ContentOr(outcome.content))
        cleaned == trim(replace(raw, {"\"", "'", "."}))
    IN  IF Falsy(imageUrl) \/ imageUrl.t # "string" THEN Throws("invalid-argument")
        ELSE IF outcome.rejects THEN Returns(pickFallbackCategory, FALSE)
        ELSE Returns(IF includes(ALLOWED, cleaned) THEN cleaned ELSE pickFallbackCategory,
                     TRUE)

LastCall(data, outcome, result) == <<[data |-> data, outcome |-> outcome, result |-> result]>>

\* The callable called with any request data.
Classify(data, outcome) ==
    /\ ai' = [ai EXCEPT !.last = LastCall(data, outcome, categorizeItemFromImage(data, outcome))]
    /\ UNCHANGED <<items, requests, notifications, usedIds, calls, storage, alert, checked,
                   stats, feed>>

\* The first copy called with any request data.
ClassifyFirst(data, outcome) ==
    /\ ai' = [ai EXCEPT !.last =
                  LastCall(data, outcome, categorizeItemFromImageFirst(data, outcome))]
    /\ UNCHANGED <<items, requests, notifications, usedIds, calls, storage, alert, checked,
                   stats, feed>>

categories == ALLOWED

\* runAICategorization(uploadedImageUrl) of the add-item screen, after an upload:
\* httpsCallable rejects when the function threw or cannot be reached.
runAICategorization(uploadedImageUrl, outcome, unavailable) ==
    LET data == Data(String(uploadedImageUrl))
        result == IF unavailable THEN Throws("unavailable")
                  ELSE categorizeItemFromImage(data, outcome)
    IN  /\ ai' = [last |-> LastCall(data, outcome, result),
                  category |-> IF /\ result.threw = ""
                                  /\ result.category # <<>>
                                  /\ includes(categories, result.category)
                               THEN result.category ELSE ai.category,
                  aiHint |-> IF result.threw # "" THEN "AI categorization failed."
                             ELSE IF result.aiUsed THEN "AI category suggested."
                             ELSE "AI couldn't categorize the item."]
        /\ UNCHANGED <<items, requests, notifications, usedIds, calls, storage, alert,
                       checked, stats, feed>>

\* A category picked in the modal of the form.
setCategory(item) ==
    /\ ai' = [ai EXCEPT !.category = item]
    /\ UNCHANGED <<items, requests, notifications, usedIds, calls, storage, alert, checked,
                   stats, feed>>

NextClassify ==
    \/ \E data \in RequestData, outcome \in Outcomes : Classify(data, outcome)
    \/ \E data \in RequestData, outcome \in Outcomes : ClassifyFirst(data, outcome)
    \/ \E outcome \in Outcomes, unavailable \in BOOLEAN :
           runAICategorization(Url, outcome, unavailable)
    \/ \E k \in DOMAIN categories : setCategory(categories[k])

SpecClassify == Init /\ [][NextClassify]_vars

(***************************************************************************)
(* The profile screen's live stats.  Its effect subscribes three queries   *)
(* with onSnapshot; each listener writes the size of its own snapshot into *)
(* its own field of stats.  Firestore hands a listener a new snapshot      *)
(* whenever the result of its query changed; a snapshot of the same size   *)
(* leaves stats as it is, so a delivery is a step only when the size       *)
(* differs from the count shown.                                           *)
(***************************************************************************)
itemsListedQ(its, uid) == {i \in DOMAIN its : its[i].ownerId = uid}

\* The donated query without its status filter.
itemsDonatedQAnyStatus(its, uid) == {i \in DOMAIN its : its[i].ownerId = uid}

itemsDonatedQ(its, uid) ==
    {i \in DOMAIN its : its[i].ownerId = uid /\ its[i].status = "donated"}

requestsPendingQ(reqs, uid) ==
    {r \in DOMAIN reqs : reqs[r].itemOwnerId = uid /\ reqs[r].status = "pending"}

size(snap) == Cardinality(snap)

\* The screen is opened by the signed-in user: the effect runs.
ProfileScreen(uid) ==
    /\ stats.uid = "none"
    /\ stats' = [statsInit EXCEPT !.uid = uid]
    /\ UNCHANGED <<items, requests, notifications, usedIds, calls, storage, alert, checked,
                   ai, feed>>

unsubListed ==
    /\ stats.uid # "none"
    /\ stats.listed # size(itemsListedQ(items, stats.uid))
    /\ stats' = [stats EXCEPT !.listed = size(itemsListedQ(items, stats.uid))]
    /\ UNCHANGED <<items, requests, notifications, usedIds, calls, storage, alert, checked,
                   ai, feed>>

unsubDonated ==
    /\ stats.uid # "none"
    /\ stats.donated # size(itemsDonatedQ(items, stats.uid))
    /\ stats' = [stats EXCEPT !.donated = size(itemsDonatedQ(items, stats.uid))]
    /\ UNCHANGED <<items, requests, notifications, usedIds, calls, storage, alert, checked,
                   ai, feed>>

unsubRequests ==
    /\ stats.uid # "none"
    /\ stats.requests # size(requestsPendingQ(requests, stats.uid))
    /\ stats' = [stats EXCEPT !.requests = size(requestsPendingQ(requests, stats.uid))]
    /\ UNCHANGED <<items, requests, notifications, usedIds, calls, storage, alert, checked,
                   ai, feed>>

\* The lifecycle as the counts see it: the handlers of the item, requests and
\* My Items screens, here started one at a time.
Idle == calls = EmptyBag

NextStats ==
    \/ \E u \in Users : onSubmit(u)
    \/ \E u \in Users, i \in ItemIds : Idle /\ onRequestItem(u, i)
    \/ \E u \in Users, r \in DOMAIN requests : Idle /\ approve(u, r)
    \/ \E u \in Users, r \in DOMAIN requests : Idle /\ reject(u, r)
    \/ \E u \in Users, i \in ItemIds : Idle /\ markDonated(u, i)
    \/ \E u \in Users, i \in ItemIds : deleteItem(u, i)
    \/ \E c \in BagToSet(calls) : TxThrow(c)
    \/ \E c \in BagToSet(calls) : TxCommit(c)
    \/ \E c \in BagToSet(calls) : markDonatedUpdate(c)
    \/ \E u \in Users : ProfileScreen(u)
    \/ unsubListed
    \/ unsubDonated
    \/ unsubRequests

\* A listener that is subscribed and whose query result changed is handed the
\* new snapshot: each delivery is weakly fair.
SpecStats ==
    /\ Init /\ [][NextStats]_vars
    /\ WF_vars(unsubListed) /\ WF_vars(unsubDonated) /\ WF_vars(unsubRequests)

(***************************************************************************)
(* The notifications screen's feed.  Its effect has the dependency array   *)
(* [] and runs once, after the first render: the listener it hands to      *)
(* onSnapshot calls the ensureProfile of that render, whose `profiles` is   *)
(* the state of that render.  setProfiles makes later renders, with new    *)
(* ensureProfile functions that the listener never calls.  A snapshot is   *)
(* delivered first on subscribing and then whenever a document of the      *)
(* query's result is added or changed.                                     *)
(***************************************************************************)
Reverse(s) == [k \in 1..Len(s) |-> s[Len(s) + 1 - k]]

\* where("toUserId", "==", user.uid), orderBy("createdAt", "desc")
notificationsQ(ns, uid) == Reverse(SelectSeq(ns, LAMBDA n : n.toUserId = uid))

\* The unique truthy fromUserId of the snapshot's documents.
senderIds(data) == {data[k].fromUserId : k \in DOMAIN data} \ {""}

\* ensureProfile(uid) with the `profiles` it closes over: whether it goes on
\* to getDoc(users/{uid}).
ensureProfile(profiles, uid) == uid # "" /\ uid \notin profiles

\* The screen is opened by the signed-in user: first render, then the effect.
NotificationsScreen(uid) ==
    /\ feed.uid = "none"
    /\ feed' = [feedInit EXCEPT !.uid = uid, !.closure = feedInit.profiles]
    /\ UNCHANGED <<items, requests, notifications, usedIds, calls, storage, alert, checked,
                   ai, stats>>

\* The listener with a snapshot: setNotifs, then ensureProfile for every
\* sender; each getDoc ends in setProfiles for its uid.
onSnapshotNotifs ==
    /\ feed.uid # "none"
    /\ LET data == notificationsQ(notifications, feed.uid)
           fetched == {u \in senderIds(data) : ensureProfile(feed.closure, u)}
       IN  /\ ~feed.shown \/ data # feed.notifs
           /\ feed' = [feed EXCEPT
                          !.shown = TRUE,
                          !.notifs = data,
                          !.profiles = @ \cup fetched,
                          !.reads = [u \in Users |-> @[u] + IF u \in fetched THEN 1 ELSE 0]]
    /\ UNCHANGED <<items, requests, notifications, usedIds, calls, storage, alert, checked,
                   ai, stats>>

NextFeed ==
    \/ \E u \in Users : onSubmit(u)
    \/ \E u \in Users, i \in ItemIds : Idle /\ onRequestItem(u, i)
    \/ \E u \in Users, r \in DOMAIN requests : Idle /\ approve(u, r)
    \/ \E u \in Users, r \in DOMAIN requests : Idle /\ reject(u, r)
    \/ \E c \in BagToSet(calls) : TxThrow(c)
    \/ \E c \in BagToSet(calls) : TxCommit(c)
    \/ \E k \in 1..Len(notifications) : markRead(notifications[k].toUserId, k)
    \/ \E u \in Users : NotificationsScreen(u)
    \/ onSnapshotNotifs

SpecFeed == Init /\ [][NextFeed]_vars

(***************************************************************************)
(* Properties of the lifecycle.                                            *)
(***************************************************************************)
StatusOf(coll, id) == IF id \in DOMAIN coll THEN coll[id].status ELSE "none"

PendingOn(itemId) ==
    {r \in DOMAIN requests : requests[r].itemId = itemId /\ requests[r].status = "pending"}

DecisionTypes == {"request_approved", "request_rejected"}

NotifsOfType(ns, types) == {k \in 1..Len(ns) : ns[k].type \in types}

\* C1: every change of an existing item's status is one of the lifecycle edges
\* available->requested, requested->accepted, requested->available,
\* accepted->donated.
LifecycleEdges ==
    {<<"available", "requested">>, <<"requested", "accepted">>,
     <<"requested", "available">>, <<"accepted", "donated">>}

C1_OnlyLifecycleEdges ==
    [][\A i \in DOMAIN items \cap DOMAIN items' :
          items[i].status # items'[i].status
              => <<items[i].status, items'[i].status>> \in LifecycleEdges]_vars

\* C2: the write of markDonated sets the status to donated only when the live
\* item is accepted and owned by the caller, and otherwise leaves the items
\* unchanged.
C2_MarkDonatedOnlyFromLiveAccepted ==
    [][\A c \in BagToSet(calls) :
          (c.op = "markDonated" /\ calls' = Return(c))
              => IF /\ c.itemId \in DOMAIN items
                    /\ items[c.itemId].status = "accepted"
                    /\ items[c.itemId].ownerId = c.uid
                 THEN items' = Update(items, c.itemId, "status", "donated")
                 ELSE items' = items]_vars

\* C3: in every reachable state each item has at most one request in status
\* pending.
C3_AtMostOnePending ==
    \A i \in usedIds : Cardinality(PendingOn(i)) <= 1

\* The error kinds of the specification for the messages the handlers throw.
ErrorKind(msg) ==
    CASE msg \in {"Item not found.", "Item not found", "Request not found"} -> "NotFound"
      [] msg \in {"You cannot request your own item.",
                  "You are not the owner of this item."} -> "Forbidden"
      [] msg \in {"This item is not available.",
                  "You already requested this item."} -> "Conflict"
      [] OTHER -> "none"

PendingIn(reqs, itemId) ==
    {r \in DOMAIN reqs : reqs[r].itemId = itemId /\ reqs[r].status = "pending"}

\* The step commits the request transaction of call c: its request document
\* appears.
RequestCommits(c) ==
    /\ c.op = "request"
    /\ InTx(c)
    /\ c.requestId \notin DOMAIN requests
    /\ c.requestId \in DOMAIN requests'

\* C4: when requests by different users race on an available item, a request
\* transaction commits only from live status available, adds exactly one
\* pending request and one request_received notification and leaves the item
\* requested; every other request call in flight on that item cannot commit
\* any more: run on the live item it fails, and a failing run writes nothing.
C4_ConcurrentRequestsOneCommits ==
    [][\A c \in BagToSet(calls) :
          RequestCommits(c)
              => /\ items[c.itemId].status = "available"
                 /\ items'[c.itemId].status = "requested"
                 /\ PendingIn(requests', c.itemId) = PendingIn(requests, c.itemId) \cup {c.requestId}
                 /\ Cardinality(NotifsOfType(notifications', {"request_received"}))
                        = Cardinality(NotifsOfType(notifications, {"request_received"})) + 1
                 /\ \A d \in BagToSet(calls') :
                        (d.op = "request" /\ d.itemId = c.itemId)
                            => ErrorKind(RequestTxError(d.uid, Snap(items', d.itemId),
                                   Snap(requests', d.requestId))) = "Conflict"]_vars

\* C4 witness: one user's request has committed while the request call another
\* user made on the available item is still in flight.
C4_Witness ==
    \E d \in BagToSet(calls), r \in DOMAIN requests :
        /\ d.op = "request"
        /\ d.requestId \notin DOMAIN requests
        /\ requests[r].itemId = d.itemId /\ requests[r].requesterId # d.uid
        /\ requests[r].status = "pending"
        /\ StatusOf(items, d.itemId) = "requested"
        /\ Cardinality(NotifsOfType(notifications, {"request_received"})) = 1

\* C5: a committing RequestItem writes, in one step, the request
\* itemId_requesterId in status pending with the item's owner, one unread
\* request_received notification from the requester to the owner, and the item
\* status requested; no step makes only some of these three writes.
C5_RequestWritesTogether ==
    [][/\ \A c \in BagToSet(calls) :
              RequestCommits(c)
                  => /\ requests' = Put(requests, RequestId(c.itemId, c.uid),
                            [itemId |-> c.itemId, itemOwnerId |-> items[c.itemId].ownerId,
                             requesterId |-> c.uid, status |-> "pending"])
                     /\ notifications' = Append(notifications,
                            [toUserId |-> items[c.itemId].ownerId, fromUserId |-> c.uid,
                             type |-> "request_received", itemId |-> c.itemId, read |-> FALSE])
                     /\ items' = Update(items, c.itemId, "status", "requested")
       /\ LET created == DOMAIN requests' # DOMAIN requests
              notified == NotifsOfType(notifications', {"request_received"})
                              # NotifsOfType(notifications, {"request_received"})
              requested == \E i \in DOMAIN items \cap DOMAIN items' :
                              items[i].status # "requested" /\ items'[i].status = "requested"
          IN  (created <=> notified) /\ (created <=> requested)]_vars

\* C5 witness: after a committed RequestItem the three documents are there.
C5_Witness ==
    \E r \in DOMAIN requests, k \in 1..Len(notifications) :
        /\ requests[r].status = "pending"
        /\ StatusOf(items, requests[r].itemId) = "requested"
        /\ notifications[k].type = "request_received"
        /\ notifications[k].fromUserId = requests[r].requesterId
        /\ notifications[k].toUserId = requests[r].itemOwnerId
        /\ ~notifications[k].read

\* What RequestItem has to answer on the live documents.
RequestExpected(c) ==
    IF c.itemId \notin DOMAIN items THEN "NotFound"
    ELSE IF items[c.itemId].ownerId = c.uid THEN "Forbidden"
    ELSE IF items[c.itemId].status # "available" \/ c.requestId \in DOMAIN requests
         THEN "Conflict"
    ELSE "none"

\* C6: a RequestItem transaction that finds the item missing fails with
\* NotFound, one by the owner with Forbidden, one on an item that is not
\* available or with its request already there with Conflict; the step in
\* which it fails leaves items, requests and notifications as they were.
C6_RequestFailuresWriteNothing ==
    [][\A c \in BagToSet(calls) :
          (c.op = "request" /\ InTx(c) /\ RequestExpected(c) # "none")
              => /\ ErrorKind(TxError(c)) = RequestExpected(c)
                 /\ calls' = Return(c) => db' = db]_vars

\* C6 witness: a RequestItem by the owner of an existing, available item is
\* about to fail with Forbidden after requests and notifications were written.
C6_Witness ==
    \E c \in BagToSet(calls) :
        /\ c.op = "request" /\ InTx(c)
        /\ StatusOf(items, c.itemId) = "available"
        /\ items[c.itemId].ownerId = c.uid
        /\ requests # <<>> /\ notifications # <<>>
        /\ ErrorKind(TxError(c)) = "Forbidden"

\* The other failures of RequestItem are reached too.
C6_NotFoundReached ==
    \E c \in BagToSet(calls) :
        c.op = "request" /\ InTx(c) /\ c.itemId \in usedIds /\ ErrorKind(TxError(c)) = "NotFound"

C6_ConflictReached ==
    \E c \in BagToSet(calls) :
        /\ c.op = "request" /\ InTx(c)
        /\ StatusOf(items, c.itemId) = "available"
        /\ TxError(c) = "You already requested this item."

Decisions ==
    {<<"approved", "accepted", "request_approved">>,
     <<"rejected", "available", "request_rejected">>}

NewDecisionNotif ==
    /\ Len(notifications') > Len(notifications)
    /\ notifications'[Len(notifications')].type \in DecisionTypes

\* The writes of one decision are applied together: a step that changes a
\* request's status, or sets an item accepted or back to available, or adds a
\* decision notification, writes the request's status, the paired item status
\* and exactly one notification to the requester.
DecisionWritesTogether ==
    [][(\/ \E r \in DOMAIN requests : requests'[r].status # requests[r].status
        \/ \E i \in DOMAIN items \cap DOMAIN items' :
              /\ items'[i].status # items[i].status
              /\ items'[i].status \in {"accepted", "available"}
        \/ NewDecisionNotif)
          => \E r \in DOMAIN requests, d \in Decisions :
                /\ requests[r].itemId \in DOMAIN items
                /\ requests' = Update(requests, r, "status", d[1])
                /\ items' = Update(items, requests[r].itemId, "status", d[2])
                /\ notifications' = Append(notifications,
                      [toUserId |-> requests[r].requesterId,
                       fromUserId |-> items[requests[r].itemId].ownerId,
                       type |-> d[3], itemId |-> requests[r].itemId, read |-> FALSE])]_vars

\* C7: the step in which an ApproveRequest or RejectRequest call ends either
\* changes the request's status, changes the item's status and adds exactly
\* one notification, or changes none of the three.
C7_DecisionAllOrNothing ==
    [][\A c \in BagToSet(calls) :
          (c.op \in {"approve", "reject"} /\ calls' = Return(c))
              => \/ db' = db
                 \/ /\ c.itemId \in DOMAIN items \cap DOMAIN items'
                    /\ requests'[c.requestId].status # requests[c.requestId].status
                    /\ items'[c.itemId].status # items[c.itemId].status
                    /\ Len(notifications') = Len(notifications) + 1]_vars

\* C8: of two decisions racing on one pending request only the first is
\* applied: a step that applies a decision finds the request pending.
C8_DecisionOnlyOnPending ==
    [][NewDecisionNotif
          => \E r \in DOMAIN requests :
                /\ requests[r].status = "pending"
                /\ requests'[r].status \in {"approved", "rejected"}]_vars

\* C9: a request is created pending, and an approved or rejected request
\* never changes its status again.
C9_DecidedRequestIsFinal ==
    [][/\ \A r \in DOMAIN requests' \ DOMAIN requests : requests'[r].status = "pending"
       /\ \A r \in DOMAIN requests :
              requests[r].status \in {"approved", "rejected"}
                  => requests'[r].status = requests[r].status]_vars

\* C10: a donated item stays donated as long as it exists.
C10_DonatedIsFinal ==
    [][\A i \in DOMAIN items \cap DOMAIN items' :
          items[i].status = "donated" => items'[i].status = "donated"]_vars

\* C11: in every reachable state an accepted item has an approved request
\* with its itemId.
C11_AcceptedHasApprovedRequest ==
    \A i \in DOMAIN items :
        items[i].status = "accepted"
            => \E r \in DOMAIN requests :
                  requests[r].itemId = i /\ requests[r].status = "approved"

\* C11 witness: an accepted item with an approved request beside an earlier,
\* rejected request of another user.
C11_Witness ==
    \E i \in DOMAIN items, r, q \in DOMAIN requests :
        /\ items[i].status = "accepted"
        /\ requests[r].itemId = i /\ requests[r].status = "approved"
        /\ requests[q].itemId = i /\ requests[q].status = "rejected"

\* The call c of a decision meets ApproveRequest's and RejectRequest's
\* preconditions on the live documents: request and item exist and the caller
\* owns the item.
DecisionAllowed(c) ==
    /\ c.requestId \in DOMAIN requests
    /\ c.itemId \in DOMAIN items
    /\ items[c.itemId].ownerId = c.uid

\* C12: the step that ends an ApproveRequest call by the item's owner on an
\* existing request and item sets the request approved and the item accepted
\* and adds one unread request_approved notification from the owner to the
\* request's requester.
C12_ApproveEffects ==
    [][\A c \in BagToSet(calls) :
          (c.op = "approve" /\ calls' = Return(c) /\ DecisionAllowed(c))
              => /\ requests' = Update(requests, c.requestId, "status", "approved")
                 /\ items' = Update(items, c.itemId, "status", "accepted")
                 /\ notifications' = Append(notifications,
                       [toUserId |-> requests[c.requestId].requesterId,
                        fromUserId |-> items[c.itemId].ownerId,
                        type |-> "request_approved",
                        itemId |-> requests[c.requestId].itemId,
                        read |-> FALSE])]_vars

\* C12 witness: an approval was applied last.
C12_Witness ==
    /\ notifications # <<>>
    /\ LET n == notifications[Len(notifications)]
       IN  /\ n.type = "request_approved" /\ ~n.read
           /\ \E r \in DOMAIN requests :
                 /\ requests[r].status = "approved"
                 /\ requests[r].requesterId = n.toUserId
                 /\ requests[r].itemOwnerId = n.fromUserId
                 /\ StatusOf(items, requests[r].itemId) = "accepted"

\* The writes of a RejectRequest call c by the item's owner.
RejectEffects(c) ==
    /\ requests' = Update(requests, c.requestId, "status", "rejected")
    /\ items' = Update(items, c.itemId, "status", "available")
    /\ notifications' = Append(notifications,
          [toUserId |-> requests[c.requestId].requesterId,
           fromUserId |-> items[c.itemId].ownerId,
           type |-> "request_rejected",
           itemId |-> requests[c.requestId].itemId,
           read |-> FALSE])

\* RequestItem by u on item i would commit in the state after the step.
RequestSucceedsNext(u, i) ==
    RequestTxError(u, Snap(items', i), Snap(requests', RequestId(i, u))) = ""

\* C13 as stated: the step that ends a RejectRequest call by the owner sets
\* the request rejected and the item available and adds one request_rejected
\* notification to the requester, and after it RequestItem by every user other
\* than the owner and the requester succeeds.
C13_RejectReopensForEveryone ==
    [][\A c \in BagToSet(calls) :
          (c.op = "reject" /\ calls' = Return(c) /\ DecisionAllowed(c))
              => /\ RejectEffects(c)
                 /\ \A u \in Users \ {c.uid, requests[c.requestId].requesterId} :
                       RequestSucceedsNext(u, c.itemId)]_vars

\* C13 amended: as above, and after it RequestItem succeeds for every user
\* other than the owner and the requester who has no request document on the
\* item yet.
C13_RejectReopensForNewRequesters ==
    [][\A c \in BagToSet(calls) :
          (c.op = "reject" /\ calls' = Return(c) /\ DecisionAllowed(c))
              => /\ RejectEffects(c)
                 /\ \A u \in Users \ {c.uid, requests[c.requestId].requesterId} :
                       RequestId(c.itemId, u) \notin DOMAIN requests
                           => RequestSucceedsNext(u, c.itemId)]_vars

\* C13 witness: after a rejection another user's request on the item was
\* committed.
C13_Witness ==
    \E r, q \in DOMAIN requests :
        /\ requests[r].status = "rejected"
        /\ requests[q].itemId = requests[r].itemId
        /\ requests[q].requesterId # requests[r].requesterId
        /\ requests[q].status = "pending"
        /\ StatusOf(items, requests[r].itemId) = "requested"
        /\ \E k \in 1..Len(notifications) :
              /\ notifications[k].type = "request_rejected"
              /\ notifications[k].toUserId = requests[r].requesterId

\* C15: in every reachable state no request is by the owner of its item,
\* whatever the item screen of the caller showed.
C15_NoRequestOnOwnItem ==
    \A r \in DOMAIN requests :
        /\ requests[r].requesterId # requests[r].itemOwnerId
        /\ requests[r].itemId \in DOMAIN items
              => requests[r].requesterId # items[requests[r].itemId].ownerId

\* C15 witness: the owner's RequestItem is in its transaction on the owner's
\* fresh item: available, no request on it.
C15_Witness ==
    \E c \in BagToSet(calls) :
        /\ c.op = "request" /\ InTx(c)
        /\ StatusOf(items, c.itemId) = "available"
        /\ items[c.itemId].ownerId = c.uid
        /\ requests = <<>>

\* The request documents of the pair (itemId, requesterId).
RequestsOfPair(reqs, itemId, uid) ==
    {q \in DOMAIN reqs : reqs[q].itemId = itemId /\ reqs[q].requesterId = uid}

\* C16: a RequestItem call that ends when the request of its (itemId,
\* requesterId) exists changes nothing, and fails with Conflict while the item
\* exists; a request document stays, is the only one of its pair and has the
\* id itemId_requesterId.
C16_RequestItemIdempotent ==
    [][/\ \A c \in BagToSet(calls) :
              (c.op = "request" /\ c.requestId \in DOMAIN requests /\ calls' = Return(c))
                  => /\ db' = db
                     /\ c.itemId \in DOMAIN items => ErrorKind(TxError(c)) = "Conflict"
       /\ DOMAIN requests \subseteq DOMAIN requests'
       /\ \A r \in DOMAIN requests' :
              /\ r = RequestId(requests'[r].itemId, requests'[r].requesterId)
              /\ RequestsOfPair(requests', requests'[r].itemId, requests'[r].requesterId) = {r}]_vars

\* C16 witness: a second RequestItem of a user is in its transaction while the
\* item is available again and the user's first request is rejected.
C16_Witness ==
    \E c \in BagToSet(calls) :
        /\ c.op = "request" /\ InTx(c)
        /\ StatusOf(items, c.itemId) = "available"
        /\ c.requestId \in DOMAIN requests
        /\ requests[c.requestId].status = "rejected"
        /\ requests[c.requestId].requesterId = c.uid

\* What ApproveRequest and RejectRequest have to answer on the live documents.
DecisionExpected(c) ==
    IF c.requestId \notin DOMAIN requests \/ c.itemId \notin DOMAIN items THEN "NotFound"
    ELSE IF items[c.itemId].ownerId # c.uid THEN "Forbidden"
    ELSE "none"

\* C14: an ApproveRequest or RejectRequest transaction by a user who is not
\* the item's owner fails with Forbidden, one whose request or item is missing
\* with NotFound; the step in which it fails leaves requests, items and
\* notifications as they were.
C14_DecisionFailuresWriteNothing ==
    [][\A c \in BagToSet(calls) :
          (c.op \in {"approve", "reject"} /\ InTx(c) /\ DecisionExpected(c) # "none")
              => /\ ErrorKind(TxError(c)) = DecisionExpected(c)
                 /\ calls' = Return(c) => db' = db]_vars

\* C14 witness: a decision by a user who is not the owner is in its
\* transaction on an existing pending request and its item.
C14_Witness ==
    \E c \in BagToSet(calls) :
        /\ c.op \in {"approve", "reject"} /\ InTx(c)
        /\ c.requestId \in DOMAIN requests /\ c.itemId \in DOMAIN items
        /\ requests[c.requestId].status = "pending"
        /\ items[c.itemId].ownerId # c.uid
        /\ ErrorKind(TxError(c)) = "Forbidden"

\* The NotFound failures of a decision are reached too.
C14_RequestNotFoundReached ==
    \E c \in BagToSet(calls) :
        /\ c.op = "approve" /\ InTx(c)
        /\ c.itemId \in DOMAIN items /\ items[c.itemId].ownerId = c.uid
        /\ TxError(c) = "Request not found"

C14_ItemNotFoundReached ==
    \E c \in BagToSet(calls) :
        /\ c.op = "reject" /\ InTx(c)
        /\ c.requestId \in DOMAIN requests
        /\ TxError(c) = "Item not found"

\* C18: a step that removes an item document is a DeleteItem of its owner's
\* and reports "Deleted" whatever becomes of the image; it removes no object
\* but that item's image.  An object is removed only in the step that removes
\* its item's document: not when the document delete fails, which reports
\* "Error" and changes nothing, and not in a later retry.
C18_DeleteItemDocumentFirst ==
    [][/\ \A i \in DOMAIN items \ DOMAIN items' :
              /\ alert' = [itemId |-> i, title |-> "Deleted"]
              /\ storage \ storage' \subseteq {items[i].imageUrl}
              /\ items' = Remove(items, i)
       /\ storage \ storage' # {} => DOMAIN items' # DOMAIN items
       /\ (alert' # alert /\ alert'.title = "Error") => (items' = items /\ storage' = storage)]_vars

\* C18 witness: an item was deleted and "Deleted" reported while its image
\* object is still stored: the image delete failed and was swallowed.
C18_Witness ==
    \E i \in usedIds :
        /\ i \notin DOMAIN items
        /\ alert = [itemId |-> i, title |-> "Deleted"]
        /\ AddImage(i) \in storage

\* The other outcomes of DeleteItem are reached too.
C18_ImageDeletedReached ==
    \E i \in usedIds : i \notin DOMAIN items /\ AddImage(i) \notin storage

C18_DocumentDeleteFailedReached ==
    \E i \in DOMAIN items :
        alert = [itemId |-> i, title |-> "Error"] /\ items[i].imageUrl \in storage

\* C17: canMarkDonated(s) is true exactly when s is "accepted": false for
\* "available", "requested", "donated", "pending", the empty string and every
\* other string, a different spelling of accepted included.
C17_CanMarkDonatedIffAccepted ==
    /\ \A s \in DOMAIN checked : checked[s] <=> s = "accepted"
    /\ \A s \in DOMAIN checked \cap {"available", "requested", "donated", "pending", "",
                                    "Accepted", "ACCEPTED", " accepted"} : ~checked[s]

\* C17 witness: the rule was applied to "accepted" and to strings that are not.
C17_Witness ==
    /\ {"accepted", "available", "donated", "pending", "", "Accepted"} \subseteq DOMAIN checked
    /\ checked["accepted"]
    /\ ~checked[""] /\ ~checked["Accepted"]

\* C19: a step that changes the status of an item is the end of a
\* RequestItem, ApproveRequest, RejectRequest or MarkDonated call on that item;
\* the step that ends a save, an image change or an image removal leaves every
\* item's status, the edited item's too, as it was.
C19_EditsKeepStatus ==
    [][/\ \A i \in DOMAIN items \cap DOMAIN items' :
              items'[i].status # items[i].status
                  => \E c \in BagToSet(calls) :
                        /\ c.op \in TxOps \cup {"markDonated"}
                        /\ c.itemId = i
                        /\ calls' = Return(c)
       /\ \A c \in BagToSet(calls) :
              (c.op \in EditOps /\ calls' = Return(c))
                  => /\ DOMAIN items' = DOMAIN items
                     /\ \A i \in DOMAIN items : items'[i].status = items[i].status]_vars

\* C19 witness: an edit's write was applied to an item whose status a
\* lifecycle transition had changed, while a decision on it is in flight.
C19_Witness ==
    \E c \in BagToSet(calls) :
        /\ c.op \in {"approve", "reject"}
        /\ StatusOf(items, c.itemId) = "requested"
        /\ items[c.itemId].imageUrl # AddImage(c.itemId)

\* C20: a notification is added only by the step in which a RequestItem,
\* ApproveRequest or RejectRequest transaction commits, one at a time and
\* unread; an existing notification stays, keeps its recipient, sender, type
\* and itemId, and its read only goes from false to true.
C20_NotificationsOnlyMarkedRead ==
    [][/\ Len(notifications') >= Len(notifications)
       /\ \A k \in 1..Len(notifications) :
              /\ notifications'[k] = [notifications[k] EXCEPT !.read = notifications'[k].read]
              /\ notifications[k].read => notifications'[k].read
       /\ Len(notifications') > Len(notifications)
              => /\ Len(notifications') = Len(notifications) + 1
                 /\ ~notifications'[Len(notifications')].read
                 /\ \E c \in BagToSet(calls) :
                       /\ c.op \in TxOps /\ TxError(c) = ""
                       /\ calls' = Return(c)]_vars

\* C20 witness: a notification was marked read and another one was created
\* after it.
C20_Witness ==
    /\ Len(notifications) >= 2
    /\ notifications[1].read
    /\ notifications[1].type = "request_received"
    /\ ~notifications[Len(notifications)].read

\* C21: MarkRead is idempotent.  On every notification of every reachable
\* state, marking it read twice gives what marking it once gives, marking a
\* read one gives the collection as it is, and the write touches nothing but
\* that notification's read.
C21_MarkReadIdempotent ==
    \A k \in 1..Len(notifications) :
        LET once == markReadWrite(notifications, k)
        IN  /\ markReadWrite(once, k) = once
            /\ notifications[k].read => once = notifications
            /\ once = [notifications EXCEPT ![k] = [notifications[k] EXCEPT !.read = TRUE]]
            /\ ENABLED markRead(notifications[k].toUserId, k)

\* C21 witness: a notification has been marked read, beside an unread one.
C21_Witness ==
    \E k, j \in 1..Len(notifications) :
        /\ notifications[k].read /\ ~notifications[j].read
        /\ notifications[k].type \in DecisionTypes

\* C26: an item that is accepted or donated, as every item is once a request
\* on it was approved, is never available or requested again.
C26_ApprovedItemStaysTaken ==
    [][\A i \in DOMAIN items \cap DOMAIN items' :
          items[i].status \in {"accepted", "donated"}
              => items'[i].status \notin {"available", "requested"}]_vars

\* The approved requests on an item.
ApprovedOn(itemId) ==
    {r \in DOMAIN requests : requests[r].itemId = itemId /\ requests[r].status = "approved"}

\* C27: in every reachable state at most one request per item is approved.
C27_AtMostOneApproved ==
    \A i \in usedIds : Cardinality(ApprovedOn(i)) <= 1

\* C30: in every reachable state an existing item in status requested has a
\* pending request with its itemId.
C30_RequestedHasPendingRequest ==
    \A i \in DOMAIN items :
        items[i].status = "requested" => PendingOn(i) # {}

\* C30 witness: an item is requested for the second time, with a pending
\* request beside a decided one.
C30_Witness ==
    \E i \in DOMAIN items, r \in DOMAIN requests :
        /\ items[i].status = "requested"
        /\ PendingOn(i) # {}
        /\ requests[r].itemId = i /\ requests[r].status \in {"approved", "rejected"}


\* C28: the step that deletes the item of a pending request, and every step
\* after it, leaves the request as it is, pending and counted by its owner's
\* requestsPendingQ; the item stays missing; an ApproveRequest or
\* RejectRequest on the request fails with the item missing and the step in
\* which it fails writes nothing.
C28_OrphanRequestStaysPending ==
    [][\A r \in DOMAIN requests :
          requests[r].status = "pending"
              => /\ requests[r].itemId \notin DOMAIN items'
                    => /\ r \in DOMAIN requests' /\ requests'[r] = requests[r]
                       /\ r \in requestsPendingQ(requests', requests[r].itemOwnerId)
                 /\ requests[r].itemId \notin DOMAIN items
                    => /\ requests[r].itemId \notin DOMAIN items'
                       /\ \A c \in BagToSet(calls) :
                             (c.op \in {"approve", "reject"} /\ c.requestId = r)
                                 => /\ TxError(c) = "Item not found"
                                    /\ calls' = Return(c) => db' = db]_vars

\* C28 witness: the item of a pending request was deleted and a decision on
\* the request is in flight.
C28_Witness ==
    \E c \in BagToSet(calls) :
        /\ c.op \in {"approve", "reject"} /\ InTx(c)
        /\ c.requestId \in DOMAIN requests
        /\ requests[c.requestId].status = "pending"
        /\ requests[c.requestId].itemId \notin DOMAIN items
        /\ alert.title = "Deleted"

\* C29: while a decided request of a requester on an item exists, every
\* RequestItem of that requester on the item fails, with "You already
\* requested this item." when the item is available again, and the step in
\* which it fails writes nothing; on the available item RequestItem succeeds
\* for every user who is not the owner and has no request on it.
C29_RejectedRequesterCannotRequestAgain ==
    [][\A r \in DOMAIN requests :
          requests[r].status # "pending"
              => LET i == requests[r].itemId
                     u == requests[r].requesterId
                 IN  /\ \A c \in BagToSet(calls) :
                           (c.op = "request" /\ c.uid = u /\ c.itemId = i)
                               => /\ TxError(c) # ""
                                  /\ StatusOf(items, i) = "available"
                                        => TxError(c) = "You already requested this item."
                                  /\ calls' = Return(c) => db' = db
                     /\ StatusOf(items, i) = "available"
                           => \A v \in Users \ {items[i].ownerId} :
                                 RequestId(i, v) \notin DOMAIN requests
                                     => RequestTxError(v, Snap(items, i),
                                            Snap(requests, RequestId(i, v))) = ""]_vars

\* C29 witness: on an item that is available again, the rejected requester's
\* RequestItem and that of a user without a request are both in flight.
C29_Witness ==
    \E c, d \in BagToSet(calls) :
        /\ c.op = "request" /\ d.op = "request" /\ c.itemId = d.itemId
        /\ StatusOf(items, c.itemId) = "available"
        /\ c.requestId \in DOMAIN requests
        /\ requests[c.requestId].status = "rejected"
        /\ d.requestId \notin DOMAIN requests

(***************************************************************************)
(* Properties of the classification function.                              *)
(***************************************************************************)
AllowedCategories == {Books, Furniture, Clothes, Electronics, Accessories, Plants}

\* The label the classifier returned, read leniently: without surrounding
\* white space, quotes and full stops.
Label(outcome) == trim(replace(trim(ContentOr(outcome.content)), {"\"", "'", "."}))

ClassifierFailed(c) == c.outcome.rejects
LabelAllowed(c) == ~c.outcome.rejects /\ Label(c.outcome) \in AllowedCategories

\* C22: whenever the classifier call fails or its label is not one of the six
\* allowed categories, a returned result is the fallback category with
\* aiUsed = false; aiUsed = true comes only with an allowed label that the
\* classifier produced.
C22_FallbackMeansModelNotUsed ==
    \A k \in DOMAIN ai.last :
        LET c == ai.last[k]
        IN  c.result.threw = ""
                => /\ (ClassifierFailed(c) \/ ~LabelAllowed(c))
                          => /\ c.result.category = pickFallbackCategory
                             /\ c.result.aiUsed = FALSE
                   /\ c.result.aiUsed
                          => /\ LabelAllowed(c)
                             /\ c.result.category = Label(c.outcome)

\* C23: every call returns, and returns a category that is one of the six,
\* whatever the request data and whatever the classifier does.
C23_ClassifyAlwaysReturnsCategory ==
    \A k \in DOMAIN ai.last :
        /\ ai.last[k].result.threw = ""
        /\ ai.last[k].result.category \in AllowedCategories

\* What does hold of the callable: a failed classifier call gives the fallback
\* with aiUsed = false, a returned category is always one of the six, and a
\* request with a usable imageUrl never throws.
ClassifyFallbackOnFailure ==
    \A k \in DOMAIN ai.last :
        LET c == ai.last[k]
        IN  /\ c.result.threw = "" => c.result.category \in AllowedCategories
            /\ (c.result.threw = "" /\ ClassifierFailed(c))
                   => c.result = Returns(pickFallbackCategory, FALSE)
            /\ (c.data.imageUrl.t = "string" /\ c.data.imageUrl.v # <<>>
                    /\ c.result.threw # "")
                   => c.result.threw = "unavailable"

(***************************************************************************)
(* Properties of the profile screen's counts.                              *)
(***************************************************************************)
ListedCount(uid) == Cardinality({i \in DOMAIN items : items[i].ownerId = uid})

DonatedCount(uid) ==
    Cardinality({i \in DOMAIN items : items[i].ownerId = uid /\ items[i].status = "donated"})

PendingReceivedCount(uid) ==
    Cardinality({r \in DOMAIN requests :
                    requests[r].itemOwnerId = uid /\ requests[r].status = "pending"})

CountsMatch(uid) ==
    /\ stats.uid = uid
    /\ stats.listed = ListedCount(uid)
    /\ stats.donated = DonatedCount(uid)
    /\ stats.requests = PendingReceivedCount(uid)

\* A step that changes the counts shown changes one of them, to the size of
\* its own query's result, and no document; a step of the lifecycle changes
\* no count.
OnlyOwnCount ==
    (stats.uid # "none" /\ stats' # stats)
        => /\ db' = db
           /\ \/ stats' = [stats EXCEPT !.listed = ListedCount(stats.uid)]
              \/ stats' = [stats EXCEPT !.donated = DonatedCount(stats.uid)]
              \/ stats' = [stats EXCEPT !.requests = PendingReceivedCount(stats.uid)]

\* C24: for whichever user's profile screen is open, under fair delivery of
\* snapshots the three counts shown always come to equal the numbers of the
\* user's items, of the user's donated items and of the pending requests the
\* user received, and in the end stay equal to them; each listener changes
\* only its own count and nothing else recomputes them.
C24_CountsEventuallyMatch ==
    /\ (stats.uid # "none") ~> CountsMatch(stats.uid)
    /\ <>[](stats.uid # "none" => CountsMatch(stats.uid))
    /\ [][OnlyOwnCount]_vars

C24_Witness ==
    /\ stats.uid # "none"
    /\ CountsMatch(stats.uid)
    /\ stats.listed = 1
    /\ stats.donated = 1
    /\ \E r \in DOMAIN requests : requests[r].status = "rejected"

\* The received-requests count caught up with a pending request.
C24_RequestsCountReached ==
    /\ stats.uid # "none"
    /\ CountsMatch(stats.uid)
    /\ stats.requests = 1

(***************************************************************************)
(* Properties of the notification feed.                                    *)
(***************************************************************************)
\* C25: a snapshot that arrives while a sender's profile is cached issues no
\* read of that sender's profile; so no profile is read twice in a session.
C25_CachedProfileNotFetchedAgain ==
    [][\A u \in Users : u \in feed.profiles => feed'.reads[u] = feed.reads[u]]_vars

\* The first snapshot that shows a sender reads that sender's profile, once.
FirstSnapshotReadsOnce ==
    [][\A u \in Users :
          (u \notin feed.profiles /\ feed.uid # "none" /\ feed'.uid = feed.uid)
              => feed'.reads[u] <= feed.reads[u] + 1]_vars

\* A sender's profile has been read twice.
C25_ReadTwiceReached == \E u \in Users : feed.reads[u] = 2

====
